---- MODULE Spec2Model ----
(***************************************************************************)
(* Model of the ANCA Coordinator dashboard script (src/app.py).            *)
(*                                                                         *)
(* The script is executed top to bottom once per render pass.  What        *)
(* survives between passes is st.session_state (simulation_running,        *)
(* atkinson_score) and the values of the sidebar widgets.  One action of   *)
(* the model is one whole pass, triggered by one operator event: a plain   *)
(* rerun, a change of one sidebar widget, or a click on one button.  A     *)
(* button returns True only in the pass its click triggered.               *)
(*                                                                         *)
(* Floating-point values are kept in thousandths: 0.45 is 450 and          *)
(* np.random.random() is an integer r in 0..999 standing for r/1000.       *)
(***************************************************************************)
EXTENDS Integers, Sequences, FiniteSets

\* ---------------------------------------------------------------- bounds
\* number of sample points of np.random.random() (end points included)
RandSamples == 2
\* number of sampled outcomes of each vector draw of the fleet generator
StatusSamples == 2
BatterySamples == 2
TaskSamples == 2
\* largest slider position the operator tries
SliderTried == 6

\* ------------------------------------------------------ program constants
Scale == 1000
SeedScore == 450
AtkinsonBase == 400
AtkinsonSpan == 100
DefaultEpsilon == 500
SliderMin == 1
SliderMax == 20
SliderDefault == 4
BatteryLow == 20
BatteryHigh == 100
TasksLow == 0
TasksHigh == 5

Modes == <<"Offline Training", "Live Deployment", "Replay">>
Speeds == <<"1x", "2x", "5x", "10x">>
Agents == <<"LeadDeveloper", "LogisticsAnalyst", "EthicsAuditor", "CoordinatorAgent">>
Statuses == <<"Active", "Idle", "Planning", "Moving">>

Range(s) == {s[i] : i \in DOMAIN s}
Min(a, b) == IF a < b THEN a ELSE b

\* ------------------------------------------------ the random generator
\* np.random.random(): a value of [0, 1), in thousandths
RandomDraws == {(i * (Scale - 1)) \div RandSamples : i \in 0..RandSamples}

\* np.random.choice(Statuses, size): one status per agent
StatusDraws(size) ==
    {[a \in 1..size |-> Statuses[((i * a) % Len(Statuses)) + 1]] : i \in 0..(StatusSamples - 1)}

\* np.random.randint(low, high, size): one integer of low..high-1 per agent
RandintDraws(low, high, size, samples, stride) ==
    {[a \in 1..size |-> low + ((i * stride * a) % (high - low))] : i \in 0..(samples - 1)}

\* ------------------------------------------------------ helper functions
\* variant: the identity column is drawn afresh with the other columns
generate_mock_agent_data_drawn_ids(status, battery, tasks) ==
    [a \in 1..Len(Agents) |->
        [id |-> Agents[((a + tasks[a]) % Len(Agents)) + 1], status |-> status[a],
         battery |-> battery[a], tasks |-> tasks[a]]]

\* generate_mock_agent_data(), given the three vectors it draws
generate_mock_agent_data(status, battery, tasks) ==
    [a \in 1..Len(Agents) |->
        [id |-> Agents[a], status |-> status[a], battery |-> battery[a], tasks |-> tasks[a]]]

\* variant: the draw is not scaled down to a tenth
calculate_atkinson_index_unscaled(distribution, epsilon, r) ==
    AtkinsonBase + r

\* calculate_atkinson_index(distribution, epsilon), given its draw r
calculate_atkinson_index(distribution, epsilon, r) ==
    AtkinsonBase + ((r * AtkinsonSpan) \div Scale)

\* variant: Start toggles the run state
HandleButtonsToggle(running, start, stop) ==
    LET afterStart == IF start THEN ~running ELSE running
    IN  IF stop THEN FALSE ELSE afterStart

\* the Start / Stop handling of the sidebar
HandleButtons(running, start, stop) ==
    LET afterStart == IF start THEN TRUE ELSE running
    IN  IF stop THEN FALSE ELSE afterStart

\* variant: the refresh is not guarded by the run state
RefreshMetricUnguarded(running, score, r) ==
    LET fresh == calculate_atkinson_index(<<>>, DefaultEpsilon, r)
    IN  <<fresh, fresh, TRUE>>

\* the metric refresh of tab1: <<latest_atkinson, session atkinson_score, recomputed>>
RefreshMetric(running, score, r) ==
    IF running
    THEN LET fresh == calculate_atkinson_index(<<>>, DefaultEpsilon, r)
         IN  <<fresh, fresh, TRUE>>
    ELSE <<score, score, FALSE>>

\* variant: the metric counts the rows of the fleet table
ActiveAgentsMetricRoster(n) == Len(Agents)

\* the value of the "Active Agents" metric
ActiveAgentsMetric(n) == n

\* ------------------------------------------------------------------ state
VARIABLES
    simulation_running,  \* st.session_state.simulation_running
    atkinson_score,      \* st.session_state.atkinson_score
    sim_mode,            \* value of the Mode selectbox
    num_agents,          \* value of the Number of Agents slider
    speed,               \* value of the Simulation Speed slider
    start_btn,           \* return value of the Start button in the last pass
    stop_btn,            \* return value of the Stop button in the last pass
    latest_atkinson,     \* fairness value shown by the last pass
    shown_agents,        \* "Active Agents" value shown by the last pass
    agent_df,            \* fleet table shown by the last pass
    recomputed,          \* the last pass called calculate_atkinson_index
    regenerated,         \* the last pass called generate_mock_agent_data
    rendered             \* at least one pass has completed

vars == <<simulation_running, atkinson_score, sim_mode, num_agents, speed,
          start_btn, stop_btn, latest_atkinson, shown_agents, agent_df,
          recomputed, regenerated, rendered>>

SliderValues == SliderMin..Min(SliderTried, SliderMax)

Init ==
    /\ simulation_running = FALSE
    /\ atkinson_score = SeedScore
    /\ sim_mode = Modes[1]
    /\ num_agents = SliderDefault
    /\ speed = Speeds[1]
    /\ start_btn = FALSE
    /\ stop_btn = FALSE
    /\ latest_atkinson = SeedScore
    /\ shown_agents = SliderDefault
    /\ agent_df = <<>>
    /\ recomputed = FALSE
    /\ regenerated = FALSE
    /\ rendered = FALSE

\* variant: the metric refresh runs before the buttons are handled
RenderPassMetricFirst(mode, n, spd, start, stop) ==
    \E r \in RandomDraws :
    \E status \in StatusDraws(Len(Agents)) :
    \E battery \in RandintDraws(BatteryLow, BatteryHigh, Len(Agents), BatterySamples, 23) :
    \E tasks \in RandintDraws(TasksLow, TasksHigh, Len(Agents), TaskSamples, 1) :
        LET metric  == RefreshMetric(simulation_running, atkinson_score, r)
            running == HandleButtons(simulation_running, start, stop)
        IN  /\ sim_mode' = mode
            /\ num_agents' = n
            /\ speed' = spd
            /\ start_btn' = start
            /\ stop_btn' = stop
            /\ simulation_running' = running
            /\ latest_atkinson' = metric[1]
            /\ atkinson_score' = metric[2]
            /\ recomputed' = metric[3]
            /\ shown_agents' = ActiveAgentsMetric(n)
            /\ agent_df' = generate_mock_agent_data(status, battery, tasks)
            /\ regenerated' = TRUE
            /\ rendered' = TRUE

\* One execution of the script with the given widget values and draws.
RenderPass(mode, n, spd, start, stop) ==
    \E r \in RandomDraws :
    \E status \in StatusDraws(Len(Agents)) :
    \E battery \in RandintDraws(BatteryLow, BatteryHigh, Len(Agents), BatterySamples, 23) :
    \E tasks \in RandintDraws(TasksLow, TasksHigh, Len(Agents), TaskSamples, 1) :
        LET running == HandleButtons(simulation_running, start, stop)
            metric  == RefreshMetric(running, atkinson_score, r)
        IN  /\ sim_mode' = mode
            /\ num_agents' = n
            /\ speed' = spd
            /\ start_btn' = start
            /\ stop_btn' = stop
            /\ simulation_running' = running
            /\ latest_atkinson' = metric[1]
            /\ atkinson_score' = metric[2]
            /\ recomputed' = metric[3]
            /\ shown_agents' = ActiveAgentsMetric(n)
            /\ agent_df' = generate_mock_agent_data(status, battery, tasks)
            /\ regenerated' = TRUE
            /\ rendered' = TRUE

\* operator events, each followed by one pass
Rerun == RenderPass(sim_mode, num_agents, speed, FALSE, FALSE)
SelectMode == \E m \in Range(Modes) : RenderPass(m, num_agents, speed, FALSE, FALSE)
SlideAgents == \E n \in SliderValues : RenderPass(sim_mode, n, speed, FALSE, FALSE)
SelectSpeed == \E s \in Range(Speeds) : RenderPass(sim_mode, num_agents, s, FALSE, FALSE)
PressStart == RenderPass(sim_mode, num_agents, speed, TRUE, FALSE)
PressStop == RenderPass(sim_mode, num_agents, speed, FALSE, TRUE)

Next ==
    \/ Rerun
    \/ SelectMode
    \/ SlideAgents
    \/ SelectSpeed
    \/ PressStart
    \/ PressStop

Spec == Init /\ [][Next]_vars

\* ---------------------------------------------------------------- claims
RunConfig == <<sim_mode, num_agents, speed>>
Ids(df) == [a \in DOMAIN df |-> df[a].id]

\* C1: the run state is PAUSED initially; a pass with Start pressed (and not
\* Stop) ends RUNNING whatever the prior state, a pass with Stop pressed ends
\* PAUSED whatever the prior state, a pass with neither button keeps the run
\* state; so a second Start (or Stop) in a row changes nothing.
C1_RunStateTransitions ==
    /\ ~simulation_running
    /\ [][ /\ (start_btn' /\ ~stop_btn') => simulation_running'
           /\ stop_btn' => ~simulation_running'
           /\ (~start_btn' /\ ~stop_btn') => (simulation_running' = simulation_running)
           /\ (start_btn /\ ~stop_btn /\ start_btn' /\ ~stop_btn')
                 => (simulation_running' = simulation_running)
           /\ (stop_btn /\ stop_btn') => (simulation_running' = simulation_running)
         ]_vars

\* C1 witness: a pass handled a Start press and ended RUNNING
C1_Witness == rendered /\ start_btn /\ ~stop_btn /\ simulation_running

\* C2 (as claimed): two consecutive passes that both end PAUSED publish the
\* same fairness score and the same fleet snapshot.
C2_PausedSnapshotsIdentical ==
    [][ (rendered /\ ~simulation_running /\ ~simulation_running')
            => (latest_atkinson' = latest_atkinson /\ agent_df' = agent_df) ]_vars

\* C3 (as claimed): the fairness score and the fleet snapshot published by a
\* pass were produced by the same pass: either both are fresh or both are kept.
C3_SnapshotFromOnePass ==
    rendered => (recomputed <=> regenerated)

\* C4: the persisted fairness score starts at 0.45 and every pass that ends
\* PAUSED leaves it as it was; only a pass that ends RUNNING may change it.
C4_ScoreFrame ==
    /\ atkinson_score = SeedScore
    /\ [][ /\ ~simulation_running' => (atkinson_score' = atkinson_score)
           /\ (atkinson_score' # atkinson_score) => (simulation_running' /\ recomputed')
         ]_vars

\* C4 witness: a PAUSED pass kept a score that an earlier RUNNING pass had set
C4_Witness ==
    rendered /\ ~simulation_running /\ ~recomputed /\ atkinson_score # SeedScore

\* C5 (as claimed): while RUNNING, the fleet snapshot of every pass has
\* exactly as many rows as the agent-count slider says.
C5_FleetLengthIsAgentCount ==
    (rendered /\ simulation_running) => (Len(agent_df) = num_agents)

\* C6: the pass that handles a Stop press, and every later pass until a Start
\* press, does not recompute the fairness score; the pass that handles a Start
\* press already recomputes it.
C6_StopBeforeRefresh ==
    [][ /\ stop_btn' => ~recomputed'
        /\ (~simulation_running /\ ~start_btn') => ~recomputed'
        /\ start_btn' => recomputed'
      ]_vars

\* C6 witness: a pass handled a Stop press while RUNNING and kept the score
C6_Witness ==
    rendered /\ stop_btn /\ ~simulation_running /\ ~recomputed
        /\ atkinson_score # SeedScore

\* C7 (as claimed): the index of the empty distribution is 0, so every
\* RUNNING pass, which passes the empty distribution, shows a score of 0.
C7_EmptyDistributionIsZero ==
    recomputed => (latest_atkinson = 0)

\* C8 (as claimed): the effective RunConfig used and shown by the passes
\* changes only in a pass where Start is pressed.
C8_ConfigChangesOnlyOnStart ==
    [][ (<<RunConfig, shown_agents>>' # <<RunConfig, shown_agents>>) => start_btn' ]_vars

\* C8 (amended): every pass uses and shows the sidebar values of that very
\* pass, whether or not Start is pressed; a pass that handles a Start or a
\* Stop press leaves the RunConfig as it was.
C8_ConfigFollowsSidebar ==
    [][ /\ shown_agents' = num_agents'
        /\ (start_btn' \/ stop_btn') => (RunConfig' = RunConfig)
      ]_vars

\* C8 witness: the agent count shown differs from the default although the
\* simulation was never started
C8_Witness ==
    rendered /\ ~start_btn /\ ~simulation_running /\ atkinson_score = SeedScore
        /\ shown_agents # SliderDefault /\ shown_agents = num_agents

\* C9: the persisted fairness score and the fairness value shown lie in [0, 1].
C9_ScoreInUnitInterval ==
    /\ 0 <= atkinson_score /\ atkinson_score <= Scale
    /\ 0 <= latest_atkinson /\ latest_atkinson <= Scale

\* C9 witness: a RUNNING pass published the largest score the engine returns
C9_Witness ==
    recomputed /\ latest_atkinson = AtkinsonBase + (((Scale - 1) * AtkinsonSpan) \div Scale)
        /\ atkinson_score = latest_atkinson

====
